---- MODULE Spec2Model ----
(***************************************************************************)
(* limitfiles: one LimitProcessor (the Limiter) watching one directory.    *)
(*                                                                         *)
(* The Limiter's state is the fields my_init sets (min, delete_threshold,  *)
(* match, files).  The directory, its permissions and the inotify queue    *)
(* are the environment.  One action models one whole handler, as the       *)
(* event loop runs one handler to completion before it reads the next      *)
(* event.                                                                  *)
(***************************************************************************)
EXTENDS Integers, Sequences, FiniteSets, TLC

\* ---------------------------------------------------------------- bounds
MaxFile == 2      \* file names are 1..MaxFile
MaxTime == 2      \* mtimes are 1..MaxTime
MaxQueue == 1     \* events the inotify queue holds before it overflows
MaxHigh == 2      \* high and low range over -1..MaxHigh
MaxSpecial == 1   \* directory entries that are not plain regular files
MaxSections == 2  \* sections of the configuration file

Names == 1..MaxFile
Times == 1..MaxTime
Watermarks == -1..MaxHigh

\* ------------------------------------------------------------ directory
\* What a directory entry is.  A symlink carries what it resolves to, since
\* os.stat follows it; mtime is the st_mtime os.stat reports (0 where the
\* code never reads it).
RegKinds == {"reg", "lnk_reg"}
OtherKinds == {"dir", "fifo", "sock", "lnk_dir", "lnk_missing", "lnk_loop"}
Absent == [kind |-> "absent", mtime |-> 0]
Entries ==
    {Absent} \cup [kind : RegKinds, mtime : Times]
             \cup [kind : OtherKinds, mtime : {0}]

Special(d) == {n \in Names : d[n].kind \notin {"absent", "reg"}}
Present(d) == {n \in Names : d[n].kind # "absent"}

DiskStates ==
    {d \in [Names -> Entries] : Cardinality(Special(d)) <= MaxSpecial}

\* What the watched path names when add_watch is called.
PathKinds == {"dir", "file", "missing"}

\* The directory's permission bits and the entries an owner or an immutable
\* flag protects, as they stand while one handler runs.
Perms ==
    [mode : {"rwx"}, immutable : SUBSET Names]
        \cup [mode : {"r-x", "r--", "---"}, immutable : {{}}]

\* ---------------------------------------------------------------- errno
_common_errnos == {"ENOENT", "EPERM", "EACCES"}
_changed_under_errnos == _common_errnos \cup {"ENOTDIR"}

\* os.listdir(self.dir_name)
os_listdir(path, d, perm) ==
    CASE path = "missing" -> [err |-> "ENOENT", names |-> {}]
      [] path = "file" -> [err |-> "ENOTDIR", names |-> {}]
      [] perm.mode = "---" -> [err |-> "EACCES", names |-> {}]
      [] OTHER -> [err |-> "OK", names |-> Present(d)]

\* os.stat(path): follows symlinks.
os_stat(d, perm, n) ==
    CASE perm.mode \in {"r--", "---"} ->
             [err |-> "EACCES", reg |-> FALSE, mtime |-> 0]
      [] d[n].kind \in {"absent", "lnk_missing"} ->
             [err |-> "ENOENT", reg |-> FALSE, mtime |-> 0]
      [] d[n].kind = "lnk_loop" ->
             [err |-> "ELOOP", reg |-> FALSE, mtime |-> 0]
      [] OTHER ->
             [err |-> "OK", reg |-> d[n].kind \in RegKinds,
              mtime |-> d[n].mtime]

\* os.unlink(path): the errno it fails with, or "OK".
os_unlink(d, perm, n) ==
    CASE perm.mode \in {"r--", "---"} -> "EACCES"
      [] d[n].kind = "absent" -> "ENOENT"
      [] perm.mode = "r-x" -> "EACCES"
      [] n \in perm.immutable -> "EPERM"
      [] d[n].kind = "dir" -> "EISDIR"
      [] OTHER -> "OK"

\* Mutant: a vanished file is not forgiven.
_skip_os_errors_NoENOENT(errno, errnos) == errno \in errnos \ {"ENOENT"}

\* Mutant: every OSError is forgiven.
_skip_os_errors_All(errno, errnos) == TRUE

\* _skip_os_errors: TRUE when the with-block swallows an OSError of this
\* errno, FALSE when it re-raises it.
_skip_os_errors(errno, errnos) == errno \in errnos

\* ------------------------------------------------------------------ state
VARIABLES
    phase,             \* "start", "watching", "rejected", "unwatched", "failed"
    dir_name,          \* what self.dir_name names (a PathKind)
    high,              \* the high argument of my_init
    min,               \* self.min
    match,             \* the match argument: "None", a pattern
    delete_threshold,  \* self.delete_threshold
    files,             \* self.files: tracked name -> recorded mtime
    disk,              \* the directory's entries
    queue,             \* inotify events not yet processed
    last,              \* what the handler that just ran did
    refused,           \* TRUE once an unlink failed with EACCES or EPERM
    main,              \* where main() is: "library" when add_watch is
                       \* called directly, else "read", "sections", "loop",
                       \* "exit3", "traceback"
    config,            \* the sections of the configuration file
    section,           \* the index of the section _iter_config is at
    success,           \* success of _build_watch_manager
    watches,           \* the sections whose directory is watched
    warned             \* the sections _config_warning was called for

limiter_vars == <<phase, dir_name, high, min, match, delete_threshold, files,
                  disk, queue, last, refused>>
main_vars == <<main, config, section, success, watches, warned>>
vars == <<limiter_vars, main_vars>>


\* ------------------------------------------------------------- Limiter
\* The match argument: None, a regular expression, or one that does not
\* compile.  File names are the one-character strings "1", "2", ...
Patterns == {"None", "[1]", "["}

\* re.compile(match) succeeds.
Compiles(m) == m # "["

\* self.match(filename): lambda name: True, or re.compile(match).search.
Matches(m, n) == m = "None" \/ (m = "[1]" /\ n = 1)

NoFiles == [n \in {} |-> 0]
\* Mutant: a path already in the table keeps its old timestamp.
Put_KeepOld(fs, n, t) ==
    [x \in DOMAIN fs \cup {n} |-> IF x \in DOMAIN fs THEN fs[x] ELSE t]

Put(fs, n, t) == [x \in DOMAIN fs \cup {n} |-> IF x = n THEN t ELSE fs[x]]
\* Mutant: the entry is left in the table.
Del_Forgotten(fs, n) == fs
Del(fs, n) == [x \in DOMAIN fs \ {n} |-> fs[x]]

\* Mutant: _record_file without its "if not self.match(filename): return".
_record_file_NoMatch(fs, d, perm, m, n) ==
    LET stats == os_stat(d, perm, n) IN
    IF stats.err # "OK"
    THEN [files |-> fs,
          raised |-> IF stats.err \in {"ENOENT", "EPERM", "EACCES"}
                     THEN "none" ELSE stats.err,
          errs |-> {stats.err}, statfail |-> {n}]
    ELSE [files |-> IF stats.reg THEN Put(fs, n, stats.mtime) ELSE fs,
          raised |-> "none", errs |-> {}, statfail |-> {}]

\* _record_file(filename): find and save one file's mtime.  raised is the
\* errno of the OSError that leaves the method, "none" when it returns;
\* errs the errnos os.stat raised, statfail the names it raised them for.
_record_file(fs, d, perm, m, n) ==
    IF ~Matches(m, n)
    THEN [files |-> fs, raised |-> "none", errs |-> {}, statfail |-> {}]
    ELSE LET stats == os_stat(d, perm, n) IN
         IF stats.err # "OK"
         THEN [files |-> fs,
               raised |-> IF _skip_os_errors(stats.err, _common_errnos)
                          THEN "none" ELSE stats.err,
               errs |-> {stats.err}, statfail |-> {n}]
         ELSE [files |-> IF stats.reg THEN Put(fs, n, stats.mtime) ELSE fs,
               raised |-> "none", errs |-> {}, statfail |-> {}]

\* for filename in listing: self._record_file(filename).  The listing is
\* walked in name order: _record_file of distinct names commute, and an
\* error that leaves the loop discards the Limiter or ends the process.
RECURSIVE RecordListing(_, _, _, _, _, _)
RecordListing(st, d, perm, m, listing, n) ==
    IF n > MaxFile \/ st.raised # "none" THEN st
    ELSE IF n \notin listing
    THEN RecordListing(st, d, perm, m, listing, n + 1)
    ELSE LET r == _record_file(st.files, d, perm, m, n) IN
         RecordListing([files |-> r.files, raised |-> r.raised,
                        errs |-> st.errs \cup r.errs,
                        statfail |-> st.statfail \cup r.statfail],
                       d, perm, m, listing, n + 1)

\* Mutant: sorted(..., reverse=True), newest first.
SortedNames_Reversed(fs) ==
    LET k == Cardinality(DOMAIN fs) IN
    {s \in [1..k -> DOMAIN fs] :
        /\ \A i, j \in 1..k : i # j => s[i] # s[j]
        /\ \A i, j \in 1..k : i < j => fs[s[i]] >= fs[s[j]]}

\* Mutant: an order that comes back to every path a second time.
SortedNames_Revisits(fs) ==
    LET n == Cardinality(DOMAIN fs) IN
    {s \in [1..(2 * n) -> DOMAIN fs] :
        /\ \A i \in 1..n : s[i + n] = s[i]
        /\ \A i, k \in 1..n : i # k => s[i] # s[k]
        /\ \A i, k \in 1..n : i < k => fs[s[i]] <= fs[s[k]]}

\* sorted(self.files.keys(), key=self.files.get): the orders of the tracked
\* names by ascending recorded mtime.  The sort is stable, so equal mtimes
\* keep the dict's insertion order, which after a scan is os.listdir's
\* arbitrary order: every order of equal mtimes is taken.
SortedNames(fs) ==
    LET k == Cardinality(DOMAIN fs) IN
    {s \in [1..k -> DOMAIN fs] :
        /\ \A i, j \in 1..k : i # j => s[i] # s[j]
        /\ \A i, j \in 1..k : i < j => fs[s[i]] <= fs[s[j]]}

\* Mutants of the guards below: the sweep stops one file late, or one early.
KeepGoing_OneMore(deletes_left) == deletes_left >= 0
KeepGoing_OneLess(deletes_left) == deletes_left > 1

\* if deletes_left < self.delete_threshold: return
Triggered(deletes_left, thr) == ~(deletes_left < thr)

\* The takewhile predicate: lambda x: deletes_left > 0
KeepGoing(deletes_left) == deletes_left > 0

\* The for loop of _clean_files over itertools.takewhile(deletes_left > 0):
\* unlink, and only when the unlink did not raise, drop the path from files
\* and count it.
RECURSIVE SweepLoop(_, _, _, _)
SweepLoop(st, perm, sorted_names, i) ==
    IF i > Len(sorted_names) \/ ~KeepGoing(st.deletes_left)
       \/ st.raised # "none"
    THEN st
    ELSE LET path == sorted_names[i]
             e == os_unlink(st.disk, perm, path)
         IN  IF e = "OK"
             THEN SweepLoop(
                    [st EXCEPT !.disk = [@ EXCEPT ![path] = Absent],
                               !.files = Del(@, path),
                               !.deletes_left = @ - 1,
                               !.tried = Append(@, path),
                               !.deleted = @ \cup {path}],
                    perm, sorted_names, i + 1)
             ELSE SweepLoop(
                    [st EXCEPT !.tried = Append(@, path),
                               !.failed = @ \cup {path},
                               !.denied = IF e \in {"EACCES", "EPERM"}
                                          THEN @ \cup {path} ELSE @,
                               !.errs = @ \cup {e},
                               !.raised =
                                   IF _skip_os_errors(e, _common_errnos)
                                   THEN "none" ELSE e],
                    perm, sorted_names, i + 1)

\* Mutant: the threshold is never adapted.
AdaptThreshold_Never(fs, mn, thr) == thr

\* Mutant: the threshold follows the count down as well as up.
AdaptThreshold_Relaxes(fs, mn, thr) == Cardinality(DOMAIN fs) - mn + 1

\* Mutant: the threshold is set to deletes_left, without the + 1.
AdaptThreshold_NoMargin(fs, mn, thr) ==
    LET deletes_left == Cardinality(DOMAIN fs) - mn IN
    IF deletes_left >= thr THEN deletes_left ELSE thr

\* The threshold after the sweep: raised when the files left would still
\* trigger cleaning.
AdaptThreshold(fs, mn, thr) ==
    LET deletes_left == Cardinality(DOMAIN fs) - mn IN
    IF deletes_left >= thr THEN deletes_left + 1 ELSE thr

\* _clean_files(): delete the oldest files when the count is above the
\* maximum.  trig tells whether the sweep ran, tried the paths passed to
\* os.unlink in order, deleted those it removed, failed those whose unlink
\* raised a skipped error, denied those of them refused with EACCES/EPERM.
_clean_files(fs, thr, mn, d, perm, sorted_names) ==
    LET deletes_left == Cardinality(DOMAIN fs) - mn
        st0 == [files |-> fs, disk |-> d, deletes_left |-> deletes_left,
                tried |-> <<>>, deleted |-> {}, failed |-> {}, denied |-> {},
                errs |-> {}, raised |-> "none"]
    IN  IF ~Triggered(deletes_left, thr)
        THEN [files |-> fs, disk |-> d, delete_threshold |-> thr,
              trig |-> FALSE, tried |-> <<>>, deleted |-> {}, failed |-> {},
              denied |-> {}, errs |-> {}, raised |-> "none"]
        ELSE LET st == SweepLoop(st0, perm, sorted_names, 1) IN
             [files |-> st.files, disk |-> st.disk,
              delete_threshold |->
                  IF st.raised # "none" THEN thr
                  ELSE AdaptThreshold(st.files, mn, thr),
              trig |-> TRUE, tried |-> st.tried, deleted |-> st.deleted,
              failed |-> st.failed, denied |-> st.denied, errs |-> st.errs,
              raised |-> st.raised]

\* self._clean_files() as a handler calls it: one outcome for each order
\* sorted() can give.
CleanOutcomes(fs, thr, mn, d, perm) ==
    {_clean_files(fs, thr, mn, d, perm, s) : s \in SortedNames(fs)}

\* What a handler reports next to the Limiter's fields: before and thr0
\* (files and delete_threshold as the handler found them) and swept (files
\* as _clean_files found it) are added by the action.
Outcome(fs, d, thr, cl, errs, raised) ==
    [files |-> fs, disk |-> d, delete_threshold |-> thr,
     trig |-> cl.trig, tried |-> cl.tried, deleted |-> cl.deleted,
     failed |-> cl.failed, denied |-> cl.denied, errs |-> errs,
     raised |-> raised]

NoClean ==
    [trig |-> FALSE, tried |-> <<>>, deleted |-> {}, failed |-> {},
     denied |-> {}]

\* process_IN_Q_OVERFLOW(skip_errors): scan the whole directory, record the
\* matching files, then clean.  Each outcome carries swept, the files the
\* scan recorded, and lserr, what os.listdir ended with.
process_IN_Q_OVERFLOW(thr, mn, m, path, d, perm, skip_errors) ==
    LET ls == os_listdir(path, d, perm)
        lsErrs == IF ls.err = "OK" THEN {} ELSE {ls.err}
        listing == IF ls.err = "OK" THEN ls.names ELSE {}
        rec == RecordListing([files |-> NoFiles, raised |-> "none",
                              errs |-> {}, statfail |-> {}],
                             d, perm, m, listing, 1)
    IN  IF ls.err # "OK" /\ ~_skip_os_errors(ls.err, skip_errors)
        THEN {[swept |-> NoFiles, statfail |-> {}, lserr |-> ls.err] @@
              Outcome(NoFiles, d, thr, NoClean, lsErrs, ls.err)}
        ELSE IF rec.raised # "none"
        THEN {[swept |-> NoFiles, statfail |-> rec.statfail,
               lserr |-> ls.err] @@
              Outcome(rec.files, d, thr, NoClean, lsErrs \cup rec.errs,
                      rec.raised)}
        ELSE {[swept |-> rec.files, statfail |-> rec.statfail,
               lserr |-> ls.err] @@
              Outcome(cl.files, cl.disk, cl.delete_threshold, cl,
                      lsErrs \cup rec.errs \cup cl.errs, cl.raised) :
              cl \in CleanOutcomes(rec.files, thr, mn, d, perm)}

\* process_IN_CREATE(event), also process_IN_ATTRIB, process_IN_MODIFY and
\* process_IN_MOVED_TO: record the event's file, then clean.
process_IN_CREATE(fs, thr, mn, m, d, perm, name) ==
    LET rec == _record_file(fs, d, perm, m, name) IN
    IF rec.raised # "none"
    THEN {[swept |-> rec.files, statfail |-> rec.statfail,
           lserr |-> "OK"] @@
          Outcome(rec.files, d, thr, NoClean, rec.errs, rec.raised)}
    ELSE {[swept |-> rec.files, statfail |-> rec.statfail,
           lserr |-> "OK"] @@
          Outcome(cl.files, cl.disk, cl.delete_threshold, cl,
                  rec.errs \cup cl.errs, cl.raised) :
          cl \in CleanOutcomes(rec.files, thr, mn, d, perm)}

\* Mutant: a tracked path takes the whole table with it.
process_IN_DELETE_All(fs, name) ==
    IF name \in DOMAIN fs THEN NoFiles ELSE fs

\* process_IN_DELETE(event), also process_IN_MOVED_FROM: forget the path;
\* a KeyError is passed over.
process_IN_DELETE(fs, name) ==
    IF name \in DOMAIN fs THEN Del(fs, name) ELSE fs

\* Mutant: "elif self.delete_threshold <= 0", which refuses high = low.
ValidationError_Strict(h, l, m) ==
    \/ l < 0
    \/ h < 0
    \/ h - l <= 0
    \/ (m # "None" /\ ~Compiles(m))

\* The checks of my_init that raise ValueError before the scan.
ValidationError(h, l, m) ==
    \/ l < 0
    \/ h < 0
    \/ h - l < 0
    \/ (m # "None" /\ ~Compiles(m))

\* my_init(dir_name, high, low, match): the checks, then the first scan.
\* raised is "ValueError" or "none".
my_init(path, h, l, m, d, perm) ==
    LET thr == h - l
        bad == [swept |-> NoFiles, statfail |-> {}, lserr |-> "OK"] @@
               Outcome(NoFiles, d, thr, NoClean, {}, "ValueError")
    IN  IF ValidationError(h, l, m) THEN {bad}
        ELSE {IF r.raised # "none" THEN [r EXCEPT !.raised = "ValueError"]
              ELSE r :
              r \in process_IN_Q_OVERFLOW(thr, l, m, path, d, perm,
                                          _common_errnos)}

\* ------------------------------------------------------------- inotify
\* The event kinds of LimitManager.mask and the method pyinotify calls for
\* each: process_IN_ATTRIB, process_IN_MODIFY and process_IN_MOVED_TO are
\* process_IN_CREATE, process_IN_MOVED_FROM is process_IN_DELETE.
Dispatch(kind) ==
    CASE kind \in {"IN_CREATE", "IN_ATTRIB", "IN_MODIFY", "IN_MOVED_TO"} ->
             "process_IN_CREATE"
      [] kind \in {"IN_DELETE", "IN_MOVED_FROM"} -> "process_IN_DELETE"
      [] kind = "IN_Q_OVERFLOW" -> "process_IN_Q_OVERFLOW"

\* A queued event, kept as the handler it is dispatched to and its name.
Event(kind, n) == [handler |-> Dispatch(kind), name |-> n]
Overflow == Event("IN_Q_OVERFLOW", 0)

\* The kernel queues an event; a full queue takes one IN_Q_OVERFLOW and
\* drops what follows.
Enqueue(q, ev) ==
    IF Len(q) < MaxQueue THEN Append(q, ev)
    ELSE IF q[Len(q)] = Overflow THEN q
    ELSE Append(q, Overflow)

RECURSIVE EnqueueAll(_, _, _)
EnqueueAll(q, evs, i) ==
    IF i > Len(evs) THEN q ELSE EnqueueAll(Enqueue(q, evs[i]), evs, i + 1)

\* The IN_DELETE events the Limiter's own unlinks raise, in order.
OwnDeletes(r) ==
    LET IsDel(n) == n \in r.deleted IN
    [i \in 1..Len(SelectSeq(r.tried, IsDel)) |->
        Event("IN_DELETE", SelectSeq(r.tried, IsDel)[i])]

\* WatchManager.add_watch(path, mask, processor): the kernel installs the
\* watch on a readable directory (IN_ONLYDIR); pyinotify logs a failure and
\* returns without raising.
Registers(path, perm) == path = "dir" /\ perm.mode # "---"

\* ------------------------------------------------------------- actions
NoLast ==
    [op |-> "none", name |-> 0, before |-> NoFiles, thr0 |-> 0,
     swept |-> NoFiles, trig |-> FALSE, tried |-> <<>>, deleted |-> {},
     failed |-> {}, denied |-> {}, statfail |-> {}, lserr |-> "OK",
     errs |-> {}, raised |-> "none"]

Report(op, name, before, thr0, r) ==
    [op |-> op, name |-> name, before |-> before, thr0 |-> thr0,
     swept |-> r.swept, trig |-> r.trig, tried |-> r.tried,
     deleted |-> r.deleted, failed |-> r.failed, denied |-> r.denied,
     statfail |-> r.statfail, lserr |-> r.lserr, errs |-> r.errs,
     raised |-> r.raised]

Init ==
    /\ phase = "start"
    /\ dir_name = "unset"
    /\ high = 0
    /\ min = 0
    /\ match = "None"
    /\ delete_threshold = 0
    /\ files = NoFiles
    /\ disk \in DiskStates
    /\ queue = <<>>
    /\ last = NoLast
    /\ refused = FALSE
    /\ main = "library"
    /\ config = <<>>
    /\ section = 0
    /\ success = FALSE
    /\ watches = {}
    /\ warned = {}

\* LimitManager.add_watch(path, high=h, low=l, match=m): construct the
\* LimitProcessor, then install the inotify watch.
add_watch(path, h, l, m, perm) ==
    /\ phase = "start"
    /\ path # "dir" => Present(disk) = {}
    /\ \E r \in my_init(path, h, l, m, disk, perm) :
        /\ phase' = IF r.raised # "none" THEN "rejected"
                    ELSE IF Registers(path, perm) THEN "watching"
                    ELSE "unwatched"
        /\ dir_name' = path
        /\ high' = h
        /\ min' = l
        /\ match' = m
        /\ delete_threshold' = r.delete_threshold
        /\ files' = r.files
        /\ disk' = r.disk
        /\ queue' = <<>>
        /\ last' = Report("add_watch", 0, NoFiles, h - l, r)
        /\ refused' = (r.denied # {})
        /\ UNCHANGED main_vars

\* The event loop reads one event and runs its handler to the end.
Handled(op, name, r) ==
    /\ phase' = IF r.raised # "none" THEN "failed" ELSE "watching"
    /\ delete_threshold' = r.delete_threshold
    /\ files' = r.files
    /\ disk' = r.disk
    /\ queue' = EnqueueAll(Tail(queue), OwnDeletes(r), 1)
    /\ last' = Report(op, name, files, delete_threshold, r)
    /\ refused' = (refused \/ r.denied # {})
    /\ UNCHANGED <<dir_name, high, min, match>>
    /\ UNCHANGED main_vars

ProcessCreate ==
    /\ phase = "watching"
    /\ queue # <<>>
    /\ Head(queue).handler = "process_IN_CREATE"
    /\ \E r \in UNION {process_IN_CREATE(files, delete_threshold, min, match,
                                         disk, perm, Head(queue).name) :
                       perm \in Perms} :
          Handled("process_IN_CREATE", Head(queue).name, r)

ProcessDelete ==
    /\ phase = "watching"
    /\ queue # <<>>
    /\ Head(queue).handler = "process_IN_DELETE"
    /\ files' = process_IN_DELETE(files, Head(queue).name)
    /\ queue' = Tail(queue)
    /\ last' = [NoLast EXCEPT !.op = "process_IN_DELETE",
                              !.name = Head(queue).name,
                              !.before = files,
                              !.thr0 = delete_threshold,
                              !.swept = files']
    /\ UNCHANGED <<phase, dir_name, high, min, match, delete_threshold,
                   disk, refused>>
    /\ UNCHANGED main_vars

ProcessOverflow ==
    /\ phase = "watching"
    /\ queue # <<>>
    /\ Head(queue) = Overflow
    /\ \E r \in UNION {process_IN_Q_OVERFLOW(delete_threshold, min, match,
                                             dir_name, disk, perm,
                                             _changed_under_errnos) :
                       perm \in Perms} :
          Handled("process_IN_Q_OVERFLOW", 0, r)

\* ---------------------------------------------------- the other actors
Changed(n, e, kind) ==
    /\ disk' = [disk EXCEPT ![n] = e]
    /\ Cardinality(Special(disk')) <= MaxSpecial
    /\ queue' = Enqueue(queue, Event(kind, n))
    /\ last' = NoLast
    /\ UNCHANGED <<phase, dir_name, high, min, match, delete_threshold,
                   files, refused>>
    /\ UNCHANGED main_vars

\* open(path, 'w'), mkdir, mkfifo, symlink, bind
EnvCreate(n, e) ==
    /\ phase = "watching"
    /\ disk[n] = Absent /\ e # Absent
    /\ Changed(n, e, "IN_CREATE")

\* rename into the directory
EnvMovedTo(n, e) ==
    /\ phase = "watching"
    /\ disk[n] = Absent /\ e # Absent
    /\ Changed(n, e, "IN_MOVED_TO")

\* os.utime, chmod
EnvAttrib(n, t) ==
    /\ phase = "watching"
    /\ disk[n].kind = "reg"
    /\ Changed(n, [disk[n] EXCEPT !.mtime = t], "IN_ATTRIB")

\* write
EnvModify(n, t) ==
    /\ phase = "watching"
    /\ disk[n].kind = "reg"
    /\ Changed(n, [disk[n] EXCEPT !.mtime = t], "IN_MODIFY")

\* unlink, rmdir
EnvDelete(n) ==
    /\ phase = "watching"
    /\ disk[n] # Absent
    /\ Changed(n, Absent, "IN_DELETE")

\* rename out of the directory
EnvMovedFrom(n) ==
    /\ phase = "watching"
    /\ disk[n] # Absent
    /\ Changed(n, Absent, "IN_MOVED_FROM")

Next ==
    \/ \E path \in PathKinds, h \in Watermarks, l \in Watermarks,
          m \in Patterns, perm \in Perms : add_watch(path, h, l, m, perm)
    \/ ProcessCreate
    \/ ProcessDelete
    \/ ProcessOverflow
    \/ \E n \in Names, e \in Entries : EnvCreate(n, e)
    \/ \E n \in Names, e \in Entries : EnvMovedTo(n, e)
    \/ \E n \in Names, t \in Times : EnvAttrib(n, t)
    \/ \E n \in Names, t \in Times : EnvModify(n, t)
    \/ \E n \in Names : EnvDelete(n)
    \/ \E n \in Names : EnvMovedFrom(n)

Spec == Init /\ [][Next]_vars

\* What a handler can report.
Errnos == _changed_under_errnos \cup {"ELOOP", "EISDIR"}
Tables == UNION {[D -> Times] : D \in SUBSET Names}
Reports(op) ==
    [op : {op}, name : 0..MaxFile, before : Tables,
     thr0 : 0..(MaxHigh + MaxFile + 1), swept : Tables, trig : BOOLEAN,
     tried : UNION {[1..k -> Names] : k \in 0..MaxFile},
     deleted : SUBSET Names, failed : SUBSET Names, denied : SUBSET Names,
     statfail : SUBSET Names, lserr : {"OK"} \cup Errnos,
     errs : SUBSET Errnos, raised : {"none"} \cup Errnos]

\* notifier.loop keeps reading: an event that is queued while the watch is
\* alive is handed to its handler, which runs and reports.  These are the
\* steps of ProcessCreate, ProcessDelete and ProcessOverflow.
ReadEvent ==
    /\ phase = "watching"
    /\ queue # <<>>
    /\ last' \in Reports(Head(queue).handler)

LoopSpec == Spec /\ WF_last(ReadEvent)

\* ------------------------------------------------------------- main()
\* One section of the configuration file.  keys tells what config.get and
\* config.getint find for directory, max and keep: "ok", "missing" (a key
\* is absent: NoOptionError) or "nonint" (max or keep is not an integer:
\* int() raises ValueError).  The other fields are the section's values,
\* and dir and perm the named directory's entries and permissions.
SectionDirs ==
    {d \in DiskStates :
        \A n \in Names : d[n].kind \in {"absent", "lnk_loop"}}

SectionPerms == {perm \in Perms : perm.mode \in {"rwx", "---"}
                                  /\ perm.immutable = {}}

NoDir == [n \in Names |-> Absent]
Rwx == [mode |-> "rwx", immutable |-> {}]

Sections ==
    [keys : {"missing", "nonint"}, directory : {"dir"}, max : {1},
     keep : {0}, match : {"None"}, dir : {NoDir}, perm : {Rwx}]
    \cup [keys : {"ok"}, directory : {"file", "missing"}, max : {1},
          keep : {0}, match : {"None"}, dir : {NoDir}, perm : {Rwx}]
    \cup [keys : {"ok"}, directory : {"dir"}, max : Watermarks,
          keep : Watermarks, match : {"None", "["}, dir : SectionDirs,
          perm : SectionPerms]

Configs == UNION {[1..k -> Sections] : k \in 0..MaxSections}

StartInit ==
    /\ phase = "start"
    /\ dir_name = "unset"
    /\ high = 0
    /\ min = 0
    /\ match = "None"
    /\ delete_threshold = 0
    /\ files = NoFiles
    /\ disk = NoDir
    /\ queue = <<>>
    /\ last = NoLast
    /\ refused = FALSE
    /\ main = "read"
    /\ config \in Configs
    /\ section = 1
    /\ success = FALSE
    /\ watches = {}
    /\ warned = {}

\* _build_watch_manager: config.read(filename); an unreadable or missing
\* file gives _config_error, which exits with status 3.
ReadConfig(readable) ==
    /\ main = "read"
    /\ main' = IF readable THEN "sections" ELSE "exit3"
    /\ ~readable => config = <<>>
    /\ UNCHANGED <<config, section, success, watches, warned>>
    /\ UNCHANGED limiter_vars

\* What _iter_config does with one section: "warn" (a configparser.Error
\* or a directory that os.path.isdir rejects: _config_warning, continue),
\* "raise" (the ValueError of getint, which no except clause of
\* _iter_config or _build_watch_manager covers) or "yield".
_iter_config(s) ==
    IF s.keys = "missing" THEN "warn"
    ELSE IF s.keys = "nonint" THEN "raise"
    ELSE IF s.directory # "dir" THEN "warn"
    ELSE "yield"

\* The for loop of _build_watch_manager at a section that _iter_config
\* does not yield.
SkipSection ==
    /\ main = "sections"
    /\ section <= Len(config)
    /\ _iter_config(config[section]) # "yield"
    /\ IF _iter_config(config[section]) = "warn"
       THEN /\ warned' = warned \cup {section}
            /\ section' = section + 1
            /\ main' = main
       ELSE /\ main' = "traceback"
            /\ UNCHANGED <<warned, section>>
    /\ UNCHANGED <<config, success, watches>>
    /\ UNCHANGED limiter_vars

\* The body of the for loop of _build_watch_manager: add_watch for a
\* yielded section; its result, a dict with one key, is true whether or
\* not the watch descriptor in it is valid.
AddSection ==
    /\ main = "sections"
    /\ section <= Len(config)
    /\ _iter_config(config[section]) = "yield"
    /\ LET s == config[section] IN
       \E r \in my_init(s.directory, s.max, s.keep, s.match, s.dir, s.perm) :
          IF r.raised # "none"
          THEN /\ warned' = warned \cup {section}
               /\ UNCHANGED <<success, watches>>
          ELSE /\ success' = TRUE
               /\ watches' = IF Registers(s.directory, s.perm)
                             THEN watches \cup {section} ELSE watches
               /\ UNCHANGED warned
    /\ section' = section + 1
    /\ UNCHANGED <<main, config>>
    /\ UNCHANGED limiter_vars

\* After the loop: "if not success: _config_error(...)", else main() goes
\* on to notifier.loop.
EndSections ==
    /\ main = "sections"
    /\ section > Len(config)
    /\ main' = IF success THEN "loop" ELSE "exit3"
    /\ UNCHANGED <<config, section, success, watches, warned>>
    /\ UNCHANGED limiter_vars

StartNext ==
    \/ \E readable \in BOOLEAN : ReadConfig(readable)
    \/ SkipSection
    \/ AddSection
    \/ EndSections

StartSpec == StartInit /\ [][StartNext]_vars

\* ---------------------------------------------------------------- claims
Count(fs) == Cardinality(DOMAIN fs)
Range(seq) == {seq[i] : i \in 1..Len(seq)}
Scans == {"add_watch", "process_IN_Q_OVERFLOW"}
\* The handler that just ran returned normally.
Completed == last.op # "none" /\ last.raised = "none"

C4_OldestFirst ==
    (Completed /\ last.trig /\ last.failed = {})
    => \A dl \in last.deleted : \A sv \in DOMAIN files :
          last.swept[dl] <= last.swept[sv]

C4_Witness ==
    /\ Completed /\ last.op = "process_IN_CREATE"
    /\ last.trig /\ last.failed = {}
    /\ \E dl \in last.deleted : \E sv \in DOMAIN files :
          /\ last.swept[dl] < last.swept[sv]
          /\ dl = last.name

\* C5: a name the pattern does not match is never a key of files, never
\* counted by a sweep and never passed to os.unlink; an event for such a
\* name leaves files and delete_threshold as they were.
C5_NonMatching ==
    \A n \in Names : ~Matches(match, n) =>
        /\ n \notin DOMAIN files
        /\ n \notin DOMAIN last.swept
        /\ n \notin Range(last.tried)
        /\ (last.op \in {"process_IN_CREATE", "process_IN_DELETE"}
            /\ last.name = n)
           => /\ files = last.before
              /\ delete_threshold = last.thr0
              /\ last.tried = <<>>

C5_Witness ==
    /\ phase = "watching" /\ last.op = "process_IN_CREATE"
    /\ ~Matches(match, last.name)
    /\ disk[last.name].kind = "reg"
    /\ files # NoFiles
    /\ Cardinality({n \in Names : disk[n].kind = "reg"}) >= high
    /\ high > min

\* The tracked files a sweep should spare: the min newest by recorded mtime.
Newest(fs, k) ==
    {n \in DOMAIN fs :
        Cardinality({o \in DOMAIN fs : fs[o] > fs[n]}) < k}
DistinctMtimes(fs) ==
    \A a, b \in DOMAIN fs : a # b => fs[a] # fs[b]

\* C3: in every sweep, also one in which some unlinks are refused, the low
\* tracked files with the newest mtimes (mtimes distinct) are not deleted.
C3_NewestSurvive ==
    (last.trig /\ DistinctMtimes(last.swept))
    => Newest(last.swept, min) \cap last.deleted = {}

\* An entry os.lstat would not call a regular file.
NonRegular(e) == e.kind \in OtherKinds \cup {"lnk_reg"}

\* C6: a directory, FIFO, socket or symlink, whatever the symlink points
\* to, is never put into files by a scan or an event handler and never
\* deleted by a sweep.
C6_OnlyRegular ==
    [][last'.op # "none" =>
          \A n \in Names : NonRegular(disk[n]) =>
              /\ n \in DOMAIN last'.swept
                 => (n \in DOMAIN files /\ last'.swept[n] = files[n]
                     /\ last'.op \notin Scans)
              /\ n \notin last'.deleted]_vars

\* C7 as claimed: add_watch raises whenever high < low, low < 0, high < 0,
\* the pattern does not compile or the path is not a directory, and then
\* registers nothing and deletes nothing; high = low >= 0 with a valid
\* pattern and a directory is accepted.
C7_AsClaimed ==
    last.op = "add_watch" =>
        /\ (ValidationError(high, min, match) \/ dir_name # "dir")
           => /\ last.raised = "ValueError"
              /\ phase # "watching"
              /\ last.deleted = {}
        /\ (high = min /\ min >= 0 /\ Compiles(match) /\ dir_name = "dir")
           => phase = "watching"

\* C7, amended: add_watch raises ValueError whenever high < low, low < 0,
\* high < 0, the pattern does not compile or the path exists and is not a
\* directory; a path that does not exist raises nothing (os.listdir's
\* ENOENT is skipped) but installs no watch; in all these cases nothing is
\* registered or deleted.  high = low >= 0 with a valid pattern and a
\* directory that os.listdir can read is accepted unless a stat of the
\* first scan fails with an errno that is not skipped.
C7_Validation ==
    last.op = "add_watch" =>
        /\ (ValidationError(high, min, match) \/ dir_name = "file")
           => /\ last.raised = "ValueError"
              /\ phase = "rejected"
              /\ last.deleted = {} /\ last.tried = <<>>
        /\ (~ValidationError(high, min, match) /\ dir_name = "missing")
           => /\ last.raised = "none"
              /\ phase = "unwatched"
              /\ last.deleted = {} /\ last.tried = <<>>
        /\ (high = min /\ min >= 0 /\ Compiles(match) /\ dir_name = "dir"
            /\ last.lserr = "OK" /\ last.errs \subseteq _common_errnos)
           => phase = "watching"

C7_Witness ==
    /\ last.op = "add_watch" /\ phase = "rejected"
    /\ high < min /\ high >= 0 /\ match = "None" /\ dir_name = "dir"
    /\ Cardinality(Present(disk)) = MaxFile

\* C8: a stat or unlink that fails with ENOENT, EACCES or EPERM does not
\* end the handler: it returns normally, the scan still records every other
\* file, the sweep still goes on to the remaining paths, and the watch
\* stays in the phase in which queued events are processed.
C8_ToleratedErrors ==
    /\ (last.op \in {"process_IN_CREATE", "process_IN_Q_OVERFLOW"}
        /\ last.errs \subseteq _common_errnos)
       => (last.raised = "none" /\ phase = "watching")
    /\ (last.op = "add_watch" /\ last.errs \subseteq _common_errnos
        /\ ~ValidationError(high, min, match))
       => (last.raised = "none" /\ phase \in {"watching", "unwatched"})
    /\ (last.op \in Scans /\ Completed /\ last.lserr = "OK")
       => \A n \in Present(disk) :
             (Matches(match, n) /\ disk[n].kind \in RegKinds
              /\ n \notin last.statfail)
             => n \in DOMAIN last.swept
    /\ (Completed /\ last.trig)
       => \/ Cardinality(last.deleted) = Count(last.swept) - min
          \/ Range(last.tried) = DOMAIN last.swept

C8_Witness ==
    /\ phase = "watching" /\ last.op = "process_IN_CREATE"
    /\ last.errs = {"ENOENT"}
    /\ last.failed # {} /\ last.deleted # {}
    /\ queue # <<>>

\* C9: add_watch scans and sweeps before any event is handled: if the
\* directory holds n >= high matching regular files and no stat or unlink
\* fails, then as add_watch returns exactly the low newest of them are left
\* on disk and in files, and no event has been processed.
C9_ScanBeforeEvents ==
    [][(phase = "start" /\ phase' = "watching" /\ last'.lserr = "OK"
        /\ last'.statfail = {} /\ last'.failed = {})
       => LET reg == {n \in Names :
                         Matches(match', n) /\ disk[n].kind = "reg"}
              kept == {n \in reg : disk'[n] # Absent}
          IN  Cardinality(reg) >= high'
              => /\ Cardinality(kept) = min'
                 /\ \A k \in kept : \A dl \in reg \ kept :
                       disk[k].mtime >= disk[dl].mtime
                 /\ DOMAIN files' = kept
                 /\ \A k \in kept : files'[k] = disk[k].mtime
                 /\ queue' = <<>>
                 /\ last'.op = "add_watch"]_vars

\* C9 where no entry of the directory is a symlink to a regular file.
C9_NoSymlinks ==
    [][(phase = "start" /\ phase' = "watching" /\ last'.lserr = "OK"
        /\ last'.statfail = {} /\ last'.failed = {}
        /\ \A n \in Names : disk[n].kind # "lnk_reg")
       => LET reg == {n \in Names :
                         Matches(match', n) /\ disk[n].kind = "reg"}
              kept == {n \in reg : disk'[n] # Absent}
          IN  Cardinality(reg) >= high'
              => /\ Cardinality(kept) = min'
                 /\ \A k \in kept : \A dl \in reg \ kept :
                       disk[k].mtime >= disk[dl].mtime
                 /\ DOMAIN files' = kept
                 /\ \A k \in kept : files'[k] = disk[k].mtime
                 /\ queue' = <<>>
                 /\ last'.op = "add_watch"]_vars

\* C10: when a sweep runs and every unlink is refused, nothing is deleted
\* and delete_threshold becomes |files| - low + 1; a later event that does
\* not make files larger passes no path to os.unlink.
C10_StopsRetrying ==
    /\ (Completed /\ last.trig /\ last.tried # <<>>
        /\ Range(last.tried) = last.denied)
       => /\ last.deleted = {}
          /\ files = last.swept
          /\ delete_threshold = Count(files) - min + 1
    /\ (Completed /\ last.op # "add_watch"
        /\ Count(last.swept) <= Count(last.before))
       => last.tried = <<>>

C10_Witness ==
    /\ phase = "watching" /\ refused /\ high > min
    /\ delete_threshold > high - min
    /\ last.op = "process_IN_CREATE" /\ last.name \in DOMAIN last.before
    /\ Count(files) >= high
    /\ last.tried = <<>>

\* C11: when delete_threshold has been raised after refused deletions and
\* unlinks succeed again, the first event whose handler finds
\* |files| - low >= delete_threshold sweeps down to exactly low tracked
\* files, and those left are the newest by recorded mtime.
C11_RecoversAfterRefusal ==
    (Completed /\ last.op = "process_IN_CREATE" /\ refused
     /\ last.thr0 > high - min /\ last.trig /\ last.failed = {})
    => /\ Count(files) = min
       /\ Cardinality(last.deleted) = Count(last.swept) - min
       /\ DOMAIN files = DOMAIN last.swept \ last.deleted
       /\ \A n \in DOMAIN files : files[n] = last.swept[n]
       /\ \A dl \in last.deleted : disk[dl] = Absent
       /\ \A dl \in last.deleted : \A sv \in DOMAIN files :
             last.swept[dl] <= last.swept[sv]

C11_Witness ==
    /\ last.op = "process_IN_CREATE" /\ last.raised = "none" /\ refused
    /\ high > min /\ last.thr0 > high - min
    /\ last.trig /\ last.failed = {}
    /\ Cardinality(last.deleted) = MaxFile

\* What C12 says of one process_IN_Q_OVERFLOW step whose listing and stats
\* all succeed; fs0 and d0 are files and the directory as the handler
\* found them, fs1 files as it left them, dl what its sweep deleted.
Resynced(fs0, d0, fs1, dl, m) ==
    /\ \A n \in DOMAIN fs1 :
          /\ d0[n].kind = "reg" /\ Matches(m, n)
          /\ fs1[n] = d0[n].mtime
    /\ \A n \in DOMAIN fs0 : d0[n] = Absent => n \notin DOMAIN fs1
    /\ \A n \in Names :
          (d0[n].kind = "reg" /\ Matches(m, n))
          => (n \in DOMAIN fs1 \/ n \in dl)

\* C12: after a queue overflow is processed, files holds only matching
\* regular files of a fresh listing with their current mtimes, entries of
\* vanished files are gone, and every matching regular file of the
\* directory is tracked or was evicted by the sweep.
C12_FullResync ==
    [][(last'.op = "process_IN_Q_OVERFLOW" /\ last'.raised = "none"
        /\ last'.lserr = "OK" /\ last'.statfail = {})
       => Resynced(files, disk, files', last'.deleted, match)]_vars

\* C12 where no entry of the directory is a symlink to a regular file.
C12_NoSymlinks ==
    [][(last'.op = "process_IN_Q_OVERFLOW" /\ last'.raised = "none"
        /\ last'.lserr = "OK" /\ last'.statfail = {}
        /\ \A n \in Names : disk[n].kind # "lnk_reg")
       => Resynced(files, disk, files', last'.deleted, match)]_vars

\* C13: processing a queue overflow puts delete_threshold back to
\* high - low before the sweep of the resync: the sweep triggers exactly
\* when |files| - low >= high - low, and the threshold the handler leaves
\* is the one adapted from high - low.
C13_OverflowResetsThreshold ==
    (last.op = "process_IN_Q_OVERFLOW" /\ last.raised = "none")
    => /\ last.trig = (Count(last.swept) - min >= high - min)
       /\ delete_threshold =
             IF Count(files) - min >= high - min
             THEN Count(files) - min + 1 ELSE high - min

\* The errnos of the model that _common_errnos does not hold and that a
\* stat or an unlink can raise.
OtherErrnos == {"ELOOP", "EISDIR"}

\* C15: an OSError of a stat or unlink whose errno is not ENOENT, EACCES or
\* EPERM is never skipped: in the first scan it makes add_watch raise and
\* no watch is registered; in a live handler it is raised out of the
\* handler.
C15_OtherErrorsPropagate ==
    /\ (last.op = "add_watch" /\ last.errs \cap OtherErrnos # {})
       => /\ last.raised = "ValueError"
          /\ phase = "rejected"
    /\ (last.op \in {"process_IN_CREATE", "process_IN_Q_OVERFLOW"}
        /\ last.errs \cap OtherErrnos # {})
       => /\ last.raised \in OtherErrnos
          /\ phase = "failed"

C15_Witness ==
    /\ phase = "failed" /\ last.op = "process_IN_CREATE"
    /\ last.raised = "EISDIR" /\ last.deleted # {}

\* C16: a sweep drops every path it visits from files, whether or not the
\* unlink succeeded.
C16_OptimisticRemoval ==
    (Completed /\ last.trig)
    => \A n \in Range(last.tried) : n \notin DOMAIN files

\* C17: a sweep counts every visited path against deletes_left, so it
\* passes at most |files| - low paths to os.unlink, the oldest ones, and
\* never moves on to newer paths after a refused unlink.
C17_BoundedAttempts ==
    (Completed /\ last.trig)
    => /\ Len(last.tried) <= Count(last.swept) - min
       /\ \A t \in Range(last.tried) :
             \A u \in DOMAIN last.swept \ Range(last.tried) :
                last.swept[t] <= last.swept[u]

\* C18: delete_threshold changes only in a sweep in which an unlink
\* failed: for every valid configuration an eviction check in which no
\* unlink fails leaves delete_threshold as it was.
C18_RaisedOnlyOnRefusal ==
    (Completed /\ last.op \in Scans \cup {"process_IN_CREATE"}
     /\ last.failed = {})
    => delete_threshold = last.thr0

\* C19: process_IN_DELETE / process_IN_MOVED_FROM removes the event's path
\* from files when it is tracked and does nothing when it is not; the
\* other entries, delete_threshold and the directory are unchanged and
\* nothing is passed to os.unlink.
C19_DeleteEvent ==
    [][last'.op = "process_IN_DELETE"
       => /\ DOMAIN files' = DOMAIN files \ {last'.name}
          /\ \A n \in DOMAIN files' : files'[n] = files[n]
          /\ delete_threshold' = delete_threshold
          /\ disk' = disk
          /\ phase' = "watching"
          /\ last'.raised = "none" /\ ~last'.trig /\ last'.tried = <<>>
          /\ queue' = Tail(queue)]_vars

C19_Witness ==
    /\ last.op = "process_IN_DELETE"
    /\ last.name \in DOMAIN last.before
    /\ Count(last.before) = MaxFile
    /\ Count(files) = MaxFile - 1

\* C20: a create, attrib, modify or moved-to event for a matching regular
\* file upserts it: an untracked path makes files one larger, a tracked
\* path gets the file's current mtime and files keeps its size; when the
\* stat fails with a skipped errno files is unchanged; the eviction check
\* runs afterwards in every case.
C20_Upsert ==
    [][(last'.op = "process_IN_CREATE" /\ Matches(match, last'.name)
        /\ disk[last'.name].kind = "reg")
       => LET n == last'.name
              s == last'.swept
          IN  /\ n \notin last'.statfail
                 => /\ DOMAIN s = DOMAIN files \cup {n}
                    /\ s[n] = disk[n].mtime
                    /\ \A x \in DOMAIN files \ {n} : s[x] = files[x]
                    /\ n \notin DOMAIN files => Count(s) = Count(files) + 1
                    /\ n \in DOMAIN files => Count(s) = Count(files)
              /\ n \in last'.statfail => s = files
              /\ last'.trig = (Count(s) - min >= delete_threshold)
              /\ ~last'.trig => (files' = s /\ disk' = disk)]_vars

C20_Witness ==
    /\ last.op = "process_IN_CREATE" /\ last.raised = "none"
    /\ last.name \in DOMAIN last.before
    /\ last.swept[last.name] # last.before[last.name]
    /\ Count(last.swept) = Count(last.before)
    /\ Count(last.before) = MaxFile

\* A section from which a watch can be registered: its keys are there and
\* are integers, its directory is a directory that inotify can watch, and
\* its watermarks, pattern and first scan raise nothing.
ValidSection(s) ==
    /\ s.keys = "ok"
    /\ s.directory = "dir"
    /\ \A r \in my_init(s.directory, s.max, s.keep, s.match, s.dir, s.perm) :
          r.raised = "none"
    /\ Registers(s.directory, s.perm)

\* C14: main() reaches the event loop exactly when some section yields a
\* registered watch; any other section is skipped with a warning and does
\* not keep a valid one from being registered; with no registered watch
\* the process exits with status 3.
C14_Startup ==
    main \in {"loop", "exit3", "traceback"}
    => LET valid == {i \in 1..Len(config) : ValidSection(config[i])} IN
       /\ main = "loop" <=> valid # {}
       /\ valid = {} => main = "exit3"
       /\ watches = valid
       /\ warned = (1..Len(config)) \ valid

\* C14 for configurations in which no max or keep is a non-integer and
\* every directory named can be watched.
C14_IntegersWatchable ==
    (\A i \in 1..Len(config) :
        /\ config[i].keys # "nonint"
        /\ Registers("dir", config[i].perm))
    => C14_Startup

\* A sweep passes no path to os.unlink twice, and only tracked paths.
OncePerPath ==
    /\ \A i, k \in 1..Len(last.tried) : i # k => last.tried[i] # last.tried[k]
    /\ Range(last.tried) \subseteq DOMAIN last.swept

\* The handler of the event at the head of the queue runs to an end, with
\* a report, whatever the permissions of the directory are.
HandlerEnds ==
    (phase = "watching" /\ queue # <<>>)
    => LET ev == Head(queue) IN
       /\ ev.handler \in {"process_IN_CREATE", "process_IN_DELETE",
                          "process_IN_Q_OVERFLOW"}
       /\ \A perm \in Perms :
             /\ ev.handler = "process_IN_CREATE"
                => \E r \in process_IN_CREATE(files, delete_threshold, min,
                                              match, disk, perm, ev.name) :
                      Report(ev.handler, ev.name, files, delete_threshold, r)
                          \in Reports(ev.handler)
             /\ ev.handler = "process_IN_Q_OVERFLOW"
                => \E r \in process_IN_Q_OVERFLOW(delete_threshold, min,
                                                  match, dir_name, disk, perm,
                                                  _changed_under_errnos) :
                      Report(ev.handler, ev.name, files, delete_threshold, r)
                          \in Reports(ev.handler)

\* C21: a sweep ends after trying each tracked path at most once, also when
\* every unlink is refused, so the handling of an event always ends and the
\* next queued event is read.
C21_SweepTerminates ==
    /\ []OncePerPath
    /\ []HandlerEnds
    /\ (phase = "watching" /\ queue # <<>>) ~> (last.op # "none")

C21_Witness ==
    /\ phase = "watching" /\ last.op = "process_IN_CREATE"
    /\ last.trig /\ Len(last.tried) = MaxFile
    /\ Range(last.tried) = last.denied
    /\ DOMAIN files = DOMAIN last.swept
    /\ queue # <<>>

\* C22: after every completed first scan, resync or event handler,
\* |files| - low < delete_threshold, whether or not unlinks were refused:
\* the eviction check would not trigger if it ran again at once.
C22_BelowThreshold ==
    phase \in {"watching", "unwatched"}
    => /\ Count(files) - min < delete_threshold
       /\ ~Triggered(Count(files) - min, delete_threshold)

C22_Witness ==
    /\ phase = "watching" /\ last.op = "process_IN_Q_OVERFLOW"
    /\ last.raised = "none" /\ last.trig
    /\ last.denied # {} /\ last.deleted # {}
    /\ Count(files) - min >= last.thr0
    /\ delete_threshold = Count(files) - min + 1

\* C23: over any sequence of events delete_threshold never decreases and
\* is always >= high - low; it is not lowered when unlinks succeed again.
C23_ThresholdMonotone ==
    [][/\ phase' \in {"watching", "unwatched", "failed"}
          => delete_threshold' >= high' - min'
       /\ phase # "start" => delete_threshold' >= delete_threshold]_vars

C23_Witness ==
    /\ phase = "watching" /\ refused /\ high > min
    /\ last.op = "process_IN_Q_OVERFLOW" /\ last.raised = "none"
    /\ last.trig /\ last.failed = {} /\ last.deleted # {}
    /\ delete_threshold = last.thr0
    /\ delete_threshold > high - min
====
